---- MODULE Spec2Model ----
(***************************************************************************)
(* Model of calculator.cpp: the lexer (gettok), the precedence-climbing    *)
(* parser, the AST-to-IR code generator and the driver loop.               *)
(* Characters and tokens are the integers the C++ code uses (ASCII codes,  *)
(* EOF = -1, tok_eof = -1, tok_error = -2, tok_number = -4).               *)
(***************************************************************************)
EXTENDS Integers, Sequences, FiniteSets, TLC

VARIABLES input, LastChar, nread, NumVal, log, CurTok, lastErr, FnAST,
          TheModule, printed, modulePrint, pc, status

vars == <<input, LastChar, nread, NumVal, log, CurTok, lastErr, FnAST,
          TheModule, printed, modulePrint, pc, status>>

\* ---------------------------------------------------------------- bounds
MaxLen == 4
MaxOperands == 4

\* ------------------------------------------------------------ characters
EOF == -1
tok_eof == -1
tok_error == -2
tok_number == -4

Alphabet == {32, 33, 40, 41, 42, 43, 46, 49, 59, 60, 97}
OpChars == {42, 43, 45, 47, 60, 61, 62}

isspace(c) == c = 32 \/ (c >= 9 /\ c <= 13)
isalpha(c) == (c >= 65 /\ c <= 90) \/ (c >= 97 /\ c <= 122)
isdigit(c) == c >= 48 /\ c <= 57
isalnum(c) == isalpha(c) \/ isdigit(c)
isascii(c) == c >= 0 /\ c <= 127

\* The k-th character delivered by the input stream; EOF once it is exhausted.
CharAt(k) == IF k >= 1 /\ k <= Len(input) THEN input[k] ELSE EOF

\* getchar(): one read from the stream into LastChar.
getchar(l) == [l EXCEPT !.nread = l.nread + 1, !.LastChar = CharAt(l.nread + 1)]

\* ---------------------------------------------------------------- strtod
\* A double read from a [0-9.]+ run is kept as <<mantissa, scale>>, standing
\* for mantissa / 10^scale, with trailing fraction zeros removed.
RECURSIVE Normalize(_, _)
Normalize(m, s) == IF s > 0 /\ m % 10 = 0 THEN Normalize(m \div 10, s - 1) ELSE <<m, s>>

RECURSIVE StrtodScan(_, _, _, _, _)
StrtodScan(str, i, m, s, dot) ==
    IF i > Len(str) THEN Normalize(m, s)
    ELSE IF isdigit(str[i])
         THEN StrtodScan(str, i + 1, m * 10 + (str[i] - 48), IF dot THEN s + 1 ELSE s, dot)
         ELSE IF str[i] = 46 /\ ~dot
              THEN StrtodScan(str, i + 1, m, s, TRUE)
              ELSE Normalize(m, s)

strtod(str) == StrtodScan(str, 1, 0, 0, FALSE)

\* ----------------------------------------------------------------- lexer
\* Lexer state: [LastChar, nread, NumVal, log].  log is the history of gettok
\* calls: the LastChar at entry, the number of characters read before the
\* call, the first non-blank character and its index, the token returned,
\* whether the lexical error message was written, and the reads made.
RECURSIVE SkipSpace(_)
SkipSpace(l) == IF isspace(l.LastChar) THEN SkipSpace(getchar(l)) ELSE l

RECURSIVE NumberRun(_, _)
NumberRun_next(l2, s2) ==
    IF isdigit(l2.LastChar) \/ l2.LastChar = 46
    THEN NumberRun(l2, s2)
    ELSE [l |-> l2, str |-> s2]

NumberRun(l, str) == NumberRun_next(getchar(l), Append(str, l.LastChar))

Ret(l0, l1, lf, tok, rep) ==
    [tok |-> tok,
     l |-> [lf EXCEPT !.log = Append(l0.log,
                [entry |-> l0.LastChar, from |-> l0.nread, first |-> l1.LastChar,
                 start |-> l1.nread, tok |-> tok, reported |-> rep,
                 reads |-> lf.nread - l0.nread])]]

\* gettok once blanks are skipped (l1) and, after a letter, one more character
\* is read (l2): the rest of the function from line 41 on.
gettok_number(l0, l1, r) ==
    Ret(l0, l1, [r.l EXCEPT !.NumVal = strtod(r.str)], tok_number, isalpha(l1.LastChar))

\* Variant of gettok_rest without the end-of-input test of line 56.
gettok_rest_NoEofCheck(l0, l1, l2) ==
    IF isalpha(l1.LastChar) /\ isalnum(l2.LastChar)
    THEN Ret(l0, l1, l2, tok_error, TRUE)
    ELSE IF isdigit(l2.LastChar) \/ l2.LastChar = 46
         THEN gettok_number(l0, l1, NumberRun(l2, <<>>))
         ELSE Ret(l0, l1, getchar(l2), l2.LastChar, isalpha(l1.LastChar))

gettok_rest(l0, l1, l2) ==
    IF isalpha(l1.LastChar) /\ isalnum(l2.LastChar)
    THEN Ret(l0, l1, l2, tok_error, TRUE)
    ELSE IF isdigit(l2.LastChar) \/ l2.LastChar = 46
         THEN gettok_number(l0, l1, NumberRun(l2, <<>>))
         ELSE IF l2.LastChar = EOF
              THEN Ret(l0, l1, l2, tok_eof, isalpha(l1.LastChar))
              ELSE Ret(l0, l1, getchar(l2), l2.LastChar, isalpha(l1.LastChar))

gettok_letter(l0, l1) == gettok_rest(l0, l1, IF isalpha(l1.LastChar) THEN getchar(l1) ELSE l1)

gettok(l0) == gettok_letter(l0, SkipSpace(l0))

\* Parser state: [l (lexer state), CurTok, err (last LogError message)].
SetCurTok(p, r) == [p EXCEPT !.l = r.l, !.CurTok = r.tok]
getNextToken(p) == SetCurTok(p, gettok(p.l))

\* ---------------------------------------------------------------- parser
Null == [type |-> "null"]
NumberExprAST(v) == [type |-> "num", Val |-> v]
BinaryExprAST(op, lhs, rhs) == [type |-> "bin", Op |-> op, LHS |-> lhs, RHS |-> rhs]
PrototypeAST(name, args) == [Name |-> name, Args |-> args]
FunctionAST(proto, body) == [type |-> "fn", Proto |-> proto, Body |-> body]

\* Variant of the table with an operator ('!') that codegen has no case for.
BinopPrecedence_Extra(c) ==
    CASE c \in {60, 62, 61} -> 10
      [] c \in {43, 45} -> 20
      [] c \in {42, 47} -> 40
      [] c = 33 -> 5
      [] OTHER -> 0

\* The table main() installs; any other key reads as 0.
BinopPrecedence(c) ==
    CASE c = 60 -> 10
      [] c = 62 -> 10
      [] c = 61 -> 10
      [] c = 43 -> 20
      [] c = 45 -> 20
      [] c = 42 -> 40
      [] c = 47 -> 40
      [] OTHER -> 0

GetTokPrecedence(p) ==
    IF ~isascii(p.CurTok) THEN -1
    ELSE IF BinopPrecedence(p.CurTok) <= 0 THEN -1 ELSE BinopPrecedence(p.CurTok)

LogError(p, str) == [ast |-> Null, p |-> [p EXCEPT !.err = str]]

RECURSIVE ParseExpression(_)
RECURSIVE ParseBinOpRHS(_, _, _)

ParseNumberExpr(p) == [ast |-> NumberExprAST(p.l.NumVal), p |-> getNextToken(p)]

\* Variant of ParseParenExpr_close without the test for ')' of line 168.
ParseParenExpr_close_NoCheck(V) ==
    IF V.ast = Null THEN V
    ELSE [ast |-> V.ast, p |-> getNextToken(V.p)]

\* ParseParenExpr after `auto V = ParseExpression();`.
ParseParenExpr_close(V) ==
    IF V.ast = Null THEN V
    ELSE IF V.p.CurTok # 41 THEN LogError(V.p, "expected ')'")
    ELSE [ast |-> V.ast, p |-> getNextToken(V.p)]

ParseParenExpr(p) == ParseParenExpr_close(ParseExpression(getNextToken(p)))

ParsePrimary(p) ==
    CASE p.CurTok = tok_number -> ParseNumberExpr(p)
      [] p.CurTok = 40 -> ParseParenExpr(p)
      [] OTHER -> LogError(p, "unexpected token when expecting an expression")

\* ParseBinOpRHS after the pending operator's right-hand side is complete:
\* combine and go round the loop.
ParseBinOpRHS_combine(ExprPrec, LHS, BinOp, RHS) ==
    IF RHS.ast = Null THEN RHS
    ELSE ParseBinOpRHS(ExprPrec, BinaryExprAST(BinOp, LHS, RHS.ast), RHS.p)

\* Variant of ParseBinOpRHS_rhs recursing with TokPrec instead of TokPrec + 1.
ParseBinOpRHS_rhs_SamePrec(ExprPrec, LHS, BinOp, TokPrec, RHS) ==
    IF RHS.ast = Null THEN RHS
    ELSE ParseBinOpRHS_combine(ExprPrec, LHS, BinOp,
            IF TokPrec < GetTokPrecedence(RHS.p)
            THEN ParseBinOpRHS(TokPrec, RHS.ast, RHS.p)
            ELSE RHS)

\* ParseBinOpRHS after `auto RHS = ParsePrimary();`.
ParseBinOpRHS_rhs(ExprPrec, LHS, BinOp, TokPrec, RHS) ==
    IF RHS.ast = Null THEN RHS
    ELSE ParseBinOpRHS_combine(ExprPrec, LHS, BinOp,
            IF TokPrec < GetTokPrecedence(RHS.p)
            THEN ParseBinOpRHS(TokPrec + 1, RHS.ast, RHS.p)
            ELSE RHS)

ParseBinOpRHS(ExprPrec, LHS, p) ==
    IF GetTokPrecedence(p) < ExprPrec THEN [ast |-> LHS, p |-> p]
    ELSE ParseBinOpRHS_rhs(ExprPrec, LHS, p.CurTok, GetTokPrecedence(p),
                           ParsePrimary(getNextToken(p)))

ParseExpression_rhs(LHS) ==
    IF LHS.ast = Null THEN LHS ELSE ParseBinOpRHS(0, LHS.ast, LHS.p)

ParseExpression(p) == ParseExpression_rhs(ParsePrimary(p))

ParseTopLevelExpr_wrap(E) ==
    IF E.ast # Null
    THEN [ast |-> FunctionAST(PrototypeAST("__anon_expr", <<>>), E.ast), p |-> E.p]
    ELSE [ast |-> Null, p |-> E.p]

ParseTopLevelExpr(p) == ParseTopLevelExpr_wrap(ParseExpression(p))

\* -------------------------------------------------------- code generation
\* An IR value is a floating constant, the result of the id-th instruction
\* of the block, or null.  The builder appends one record per Create* call.
NullValue == [kind |-> "null", v |-> <<0, 0>>, id |-> 0]
ConstantFP(v) == [kind |-> "const", v |-> v, id |-> 0]
InstValue(n) == [kind |-> "inst", v |-> <<0, 0>>, id |-> n]

Create(ins, opc, a, b) ==
    [val |-> InstValue(Len(ins) + 1), ins |-> Append(ins, [opc |-> opc, a |-> a, b |-> b]),
     err |-> "none"]

CreateUIToFP(r) == Create(r.ins, "uitofp", r.val, NullValue)

LogErrorV(ins, str) == [val |-> NullValue, ins |-> ins, err |-> str]

NumberExprAST_codegen(node, ins) == [val |-> ConstantFP(node.Val), ins |-> ins, err |-> "none"]

RECURSIVE ExprAST_codegen(_, _)

\* BinaryExprAST::codegen once both operands are generated (ins: the block
\* after them).
BinaryExprAST_codegen_op(node, L, R, ins) ==
    IF L.val = NullValue \/ R.val = NullValue
    THEN [val |-> NullValue, ins |-> ins, err |-> IF R.err # "none" THEN R.err ELSE L.err]
    ELSE CASE node.Op = 43 -> Create(ins, "fadd", L.val, R.val)
           [] node.Op = 45 -> Create(ins, "fsub", L.val, R.val)
           [] node.Op = 42 -> Create(ins, "fmul", L.val, R.val)
           [] node.Op = 47 -> Create(ins, "fdiv", L.val, R.val)
           [] node.Op = 60 -> CreateUIToFP(Create(ins, "fcmp ult", L.val, R.val))
           [] node.Op = 62 -> CreateUIToFP(Create(ins, "fcmp ugt", L.val, R.val))
           [] node.Op = 61 -> CreateUIToFP(Create(ins, "fcmp ueq", L.val, R.val))
           [] OTHER -> LogErrorV(ins, "invalid binary operator")

BinaryExprAST_codegen_R(node, L, R) == BinaryExprAST_codegen_op(node, L, R, R.ins)
BinaryExprAST_codegen_L(node, L) == BinaryExprAST_codegen_R(node, L, ExprAST_codegen(node.RHS, L.ins))

\* Variant of BinaryExprAST::codegen generating the right operand first.
BinaryExprAST_codegen_RightFirst_L(node, L, R) == BinaryExprAST_codegen_op(node, L, R, L.ins)
BinaryExprAST_codegen_RightFirst_R(node, R) ==
    BinaryExprAST_codegen_RightFirst_L(node, ExprAST_codegen(node.LHS, R.ins), R)
BinaryExprAST_codegen_RightFirst(node, ins) ==
    BinaryExprAST_codegen_RightFirst_R(node, ExprAST_codegen(node.RHS, ins))

BinaryExprAST_codegen(node, ins) == BinaryExprAST_codegen_L(node, ExprAST_codegen(node.LHS, ins))

\* Virtual dispatch of ExprAST::codegen.
ExprAST_codegen(node, ins) ==
    IF node.type = "num" THEN NumberExprAST_codegen(node, ins)
    ELSE BinaryExprAST_codegen(node, ins)

\* The module is the sequence of the functions it owns; a function is its
\* name, parameter names and the instructions of its blocks.
getFunction(M, name) == {i \in 1..Len(M) : M[i].name = name}

RECURSIVE eraseFromParent(_, _)
eraseFromParent(M, name) ==
    IF M = <<>> THEN <<>>
    ELSE IF Head(M).name = name THEN Tail(M)
    ELSE <<Head(M)>> \o eraseFromParent(Tail(M), name)

PrototypeAST_codegen(proto, M) == Append(M, [name |-> proto.Name, args |-> proto.Args, body |-> <<>>])

\* FunctionAST::codegen once the body is generated into function i of M1.
FunctionAST_codegen_finish(fn, M1, i, RetVal) ==
    IF RetVal.val # NullValue
    THEN [M |-> [M1 EXCEPT ![i].body = Append(RetVal.ins, [opc |-> "ret", a |-> RetVal.val, b |-> NullValue])],
          i |-> i, err |-> RetVal.err]
    ELSE [M |-> eraseFromParent(M1, fn.Proto.Name), i |-> 0, err |-> RetVal.err]

FunctionAST_codegen_body(fn, M1, i) ==
    FunctionAST_codegen_finish(fn, M1, i, ExprAST_codegen(fn.Body, M1[i].body))

FunctionAST_codegen_entry(fn, M1) ==
    FunctionAST_codegen_body(fn, M1, CHOOSE k \in getFunction(M1, fn.Proto.Name) : TRUE)

\* Result: the module afterwards, the index in it of the completed function
\* (0 for nullptr) and the error message written, if any.
FunctionAST_codegen(fn, M) ==
    FunctionAST_codegen_entry(fn,
        IF getFunction(M, fn.Proto.Name) = {} THEN PrototypeAST_codegen(fn.Proto, M) ELSE M)

\* ---------------------------------------------------------------- driver
Lexer == [LastChar |-> LastChar, nread |-> nread, NumVal |-> NumVal, log |-> log]
Parser == [l |-> Lexer, CurTok |-> CurTok, err |-> lastErr]

SetParser(p) ==
    /\ LastChar' = p.l.LastChar
    /\ nread' = p.l.nread
    /\ NumVal' = p.l.NumVal
    /\ log' = p.l.log
    /\ CurTok' = p.CurTok
    /\ lastErr' = p.err

Strings(A, n) == UNION {[1..k -> A] : k \in 0..n}

InitState ==
    /\ LastChar = 32
    /\ nread = 0
    /\ NumVal = <<0, 0>>
    /\ log = <<>>
    /\ CurTok = 0
    /\ lastErr = "none"
    /\ FnAST = Null
    /\ TheModule = <<>>
    /\ printed = <<>>
    /\ modulePrint = <<>>
    /\ pc = "main"
    /\ status = -1

Init == input \in Strings(Alphabet, MaxLen) /\ InitState

\* Well-formed expression text: n one-digit operands 1..n joined by operators
\* of the table, optionally with operands i..j in parentheses (the closing
\* one possibly missing) and optionally ended by ';'.
RECURSIVE ExprText(_, _, _, _)
ExprText(n, ops, g, k) ==
    IF k > n THEN <<>>
    ELSE (IF g[1] = k THEN <<40>> ELSE <<>>)
         \o <<48 + k>>
         \o (IF g[2] = k /\ g[3] THEN <<41>> ELSE <<>>)
         \o (IF k < n THEN <<ops[k]>> ELSE <<>>)
         \o ExprText(n, ops, g, k + 1)

Groups(n) == {<<0, 0, FALSE>>} \cup {g \in (1..n) \X (1..n) \X BOOLEAN : g[1] <= g[2]}

ExprInputs ==
    {ExprText(n, ops, g, 1) \o semi :
        n \in 1..MaxOperands, ops \in [1..(MaxOperands - 1) -> OpChars],
        g \in Groups(MaxOperands), semi \in {<<>>, <<59>>}}

InitExpr == input \in ExprInputs /\ InitState

\* main(): prime the first token and create the empty module.
main ==
    /\ pc = "main"
    /\ \E p \in {getNextToken(Parser)} : SetParser(p)
    /\ TheModule' = <<>>
    /\ pc' = "loop"
    /\ UNCHANGED <<input, FnAST, printed, modulePrint, status>>

\* MainLoop, case tok_eof; main() then prints the module and returns 0.
MainLoop_eof ==
    /\ pc = "loop"
    /\ CurTok = tok_eof
    /\ modulePrint' = TheModule
    /\ status' = 0
    /\ pc' = "done"
    /\ UNCHANGED <<input, LastChar, nread, NumVal, log, CurTok, lastErr, FnAST, TheModule, printed>>

\* MainLoop, case tok_error and case ';'.
MainLoop_skip ==
    /\ pc = "loop"
    /\ CurTok \in {tok_error, 59}
    /\ \E p \in {getNextToken(Parser)} : SetParser(p)
    /\ UNCHANGED <<input, FnAST, TheModule, printed, modulePrint, pc, status>>

\* MainLoop, default case: call HandleTopLevelExpression.
MainLoop_default ==
    /\ pc = "loop"
    /\ CurTok \notin {tok_eof, tok_error, 59}
    /\ pc' = "handle"
    /\ UNCHANGED <<input, LastChar, nread, NumVal, log, CurTok, lastErr, FnAST, TheModule, printed, modulePrint, status>>

\* HandleTopLevelExpression up to the outer if: parse one unit; a null FnAST
\* falls out of the function with nothing else done.
HandleTopLevelExpression_parse ==
    /\ pc = "handle"
    /\ \E r \in {ParseTopLevelExpr(Parser)} :
          /\ SetParser(r.p)
          /\ FnAST' = r.ast
          /\ pc' = IF r.ast # Null THEN "codegen" ELSE "loop"
    /\ UNCHANGED <<input, TheModule, printed, modulePrint, status>>

\* Variant of HandleTopLevelExpression that does not erase the printed function.
HandleTopLevelExpression_codegen_NoErase ==
    /\ pc = "codegen"
    /\ \E r \in {FunctionAST_codegen(FnAST, TheModule)} :
       LET e == IF r.err # "none" THEN r.err ELSE lastErr
       IN IF r.i # 0
          THEN /\ printed' = Append(printed, r.M[r.i])
               /\ TheModule' = r.M
               /\ lastErr' = e
               /\ UNCHANGED <<LastChar, nread, NumVal, log, CurTok>>
          ELSE /\ \E p \in {getNextToken([Parser EXCEPT !.err = e])} : SetParser(p)
               /\ TheModule' = r.M
               /\ UNCHANGED printed
    /\ FnAST' = Null
    /\ pc' = "loop"
    /\ UNCHANGED <<input, modulePrint, status>>

\* Variant of HandleTopLevelExpression that skips a token after every codegen.
HandleTopLevelExpression_codegen_AlwaysSkip ==
    /\ pc = "codegen"
    /\ \E r \in {FunctionAST_codegen(FnAST, TheModule)} :
       LET e == IF r.err # "none" THEN r.err ELSE lastErr
       IN /\ \E p \in {getNextToken([Parser EXCEPT !.err = e])} : SetParser(p)
          /\ IF r.i # 0
             THEN /\ printed' = Append(printed, r.M[r.i])
                  /\ TheModule' = eraseFromParent(r.M, r.M[r.i].name)
             ELSE /\ TheModule' = r.M
                  /\ UNCHANGED printed
    /\ FnAST' = Null
    /\ pc' = "loop"
    /\ UNCHANGED <<input, modulePrint, status>>

\* HandleTopLevelExpression inside the outer if: generate the function, then
\* print and erase it, or skip one token when generation failed.
HandleTopLevelExpression_codegen ==
    /\ pc = "codegen"
    /\ \E r \in {FunctionAST_codegen(FnAST, TheModule)} :
       LET e == IF r.err # "none" THEN r.err ELSE lastErr
       IN IF r.i # 0
          THEN /\ printed' = Append(printed, r.M[r.i])
               /\ TheModule' = eraseFromParent(r.M, r.M[r.i].name)
               /\ lastErr' = e
               /\ UNCHANGED <<LastChar, nread, NumVal, log, CurTok>>
          ELSE /\ \E p \in {getNextToken([Parser EXCEPT !.err = e])} : SetParser(p)
               /\ TheModule' = r.M
               /\ UNCHANGED printed
    /\ FnAST' = Null
    /\ pc' = "loop"
    /\ UNCHANGED <<input, modulePrint, status>>

Next ==
    \/ main
    \/ MainLoop_eof
    \/ MainLoop_skip
    \/ MainLoop_default
    \/ HandleTopLevelExpression_parse
    \/ HandleTopLevelExpression_codegen

Spec == Init /\ [][Next]_vars

\* The same program run on well-formed expression text.
SpecExpr == InitExpr /\ [][Next]_vars

\* ================================================================ claims

Last(sq) == sq[Len(sq)]
UnitText == IF input # <<>> /\ Last(input) = 59 THEN SubSeq(input, 1, Len(input) - 1) ELSE input
HasParen(str) == \E i \in 1..Len(str) : str[i] = 40
Count(str, c) == Cardinality({i \in 1..Len(str) : str[i] = c})
Unclosed(str) == Count(str, 40) > Count(str, 41)
Depth(str, i) == Count(SubSeq(str, 1, i - 1), 40) - Count(SubSeq(str, 1, i - 1), 41)
TopOps(str) == {i \in 1..Len(str) : str[i] \in OpChars /\ Depth(str, i) = 0}

\* Binding levels as the specification states them.
Level(c) == IF c \in {60, 62, 61} THEN 10 ELSE IF c \in {43, 45} THEN 20 ELSE 40

\* The standard tree of well-formed text: split at the rightmost top-level
\* operator of the lowest level; text without a top-level operator is a
\* number or a parenthesized group standing for its inner expression.
RECURSIVE RefTree(_)
RefTree(str) ==
    IF TopOps(str) = {}
    THEN IF str[1] = 40 THEN RefTree(SubSeq(str, 2, Len(str) - 1))
         ELSE NumberExprAST(<<str[1] - 48, 0>>)
    ELSE LET i == CHOOSE k \in TopOps(str) :
                     \A m \in TopOps(str) :
                         \/ Level(str[m]) > Level(str[k])
                         \/ (Level(str[m]) = Level(str[k]) /\ m <= k)
         IN BinaryExprAST(str[i], RefTree(SubSeq(str, 1, i - 1)),
                                  RefTree(SubSeq(str, i + 1, Len(str))))

\* C1 (as claimed): after a parse error the driver discards exactly one
\* further token before the next iteration, and after a lex-error token it
\* advances exactly one token.
C1_ErrorSkipsOneToken ==
    [][/\ (pc = "handle" /\ pc' = "loop")
            => LET q == getNextToken(ParseTopLevelExpr(Parser).p)
               IN log' = q.l.log /\ CurTok' = q.CurTok
       /\ (pc = "loop" /\ CurTok = tok_error)
            => log' = getNextToken(Parser).l.log]_vars

\* C2 (as claimed): no input makes the loop spin on the same lookahead token:
\* a unit that hands control back to the top of the loop has moved the lexer
\* or the lookahead, so that the loop reaches end of input; and the process
\* ends with status 0.
C2_LoopNeverSpins ==
    [][/\ (pc = "handle" /\ pc' = "loop")
            => <<LastChar, nread, NumVal, CurTok>>' # <<LastChar, nread, NumVal, CurTok>>
       /\ pc' = "done" => status' = 0]_vars

\* C3 (as claimed): every gettok call whose first non-blank character is a
\* letter reports the lexical error and returns tok_error.
C3_LetterGivesError ==
    \A i \in DOMAIN log :
        isalpha(log[i].first) => (log[i].reported /\ log[i].tok = tok_error)

\* C4: for well-formed text without parentheses the parsed AST is the
\* standard precedence tree: equal levels nest left to right, a tighter
\* operator to the right takes the operand first.
C4_PrecedenceClimbing ==
    (pc = "codegen" /\ ~HasParen(UnitText)) => FnAST.Body = RefTree(UnitText)

C4_Witness ==
    /\ pc = "codegen"
    /\ UnitText = <<49, 43, 50, 42, 51, 45, 52>>
    /\ FnAST.Body = BinaryExprAST(45,
          BinaryExprAST(43, NumberExprAST(<<1, 0>>),
              BinaryExprAST(42, NumberExprAST(<<2, 0>>), NumberExprAST(<<3, 0>>))),
          NumberExprAST(<<4, 0>>))

\* C5: a parenthesized group is one primary whose subtree is the inner
\* expression, whatever the operators around it; a group whose expression is
\* not followed by ')' is the parse error "expected ')'" and yields no AST and
\* no function.
C5_ParenGroup ==
    /\ Unclosed(input) =>
          /\ pc # "codegen"
          /\ FnAST = Null
          /\ printed = <<>>
          /\ Len(log) > 1 => lastErr = "expected ')'"
    /\ (pc = "codegen" /\ HasParen(UnitText) /\ ~Unclosed(input))
          => FnAST.Body = RefTree(UnitText)

C5_Witness ==
    /\ pc = "codegen"
    /\ UnitText = <<40, 49, 43, 50, 41, 42, 51>>
    /\ FnAST.Body = BinaryExprAST(42,
          BinaryExprAST(43, NumberExprAST(<<1, 0>>), NumberExprAST(<<2, 0>>)),
          NumberExprAST(<<3, 0>>))

\* C6: whenever the driver is at the top of its loop, and when the loop has
\* ended, the module holds no function, and the final module print is empty.
C6_ModuleEmpty ==
    /\ pc \in {"loop", "handle", "done"} => TheModule = <<>>
    /\ pc = "done" => modulePrint = <<>>

C6_Witness ==
    /\ pc = "done"
    /\ Len(printed) >= 1
    /\ lastErr = "expected ')'"
    /\ TheModule = <<>>

\* C7: with the cursor at end of input, gettok returns tok_eof and reads no
\* character, also when called again; every call the program made in that
\* situation did so.
C7_EofStable ==
    /\ \A i \in DOMAIN log :
          log[i].entry = EOF => (log[i].tok = tok_eof /\ log[i].reads = 0)
    /\ LastChar = EOF =>
          LET r1 == gettok(Lexer)
              r2 == gettok(r1.l)
          IN /\ r1.tok = tok_eof /\ r1.l.nread = nread /\ r1.l.LastChar = EOF
             /\ r2.tok = tok_eof /\ r2.l.nread = nread /\ r2.l.LastChar = EOF

C7_Witness ==
    /\ LastChar = EOF
    /\ \E i \in DOMAIN log : log[i].entry = EOF /\ log[i].tok = tok_eof

\* The instructions a node is claimed to emit, numbered from base + 1: the
\* left operand's, the right operand's, then its own.
Own(op, a, b, base) ==
    CASE op = 43 -> <<[opc |-> "fadd", a |-> a, b |-> b]>>
      [] op = 45 -> <<[opc |-> "fsub", a |-> a, b |-> b]>>
      [] op = 42 -> <<[opc |-> "fmul", a |-> a, b |-> b]>>
      [] op = 47 -> <<[opc |-> "fdiv", a |-> a, b |-> b]>>
      [] op = 60 -> <<[opc |-> "fcmp ult", a |-> a, b |-> b],
                      [opc |-> "uitofp", a |-> InstValue(base + 1), b |-> NullValue]>>
      [] op = 62 -> <<[opc |-> "fcmp ugt", a |-> a, b |-> b],
                      [opc |-> "uitofp", a |-> InstValue(base + 1), b |-> NullValue]>>
      [] op = 61 -> <<[opc |-> "fcmp ueq", a |-> a, b |-> b],
                      [opc |-> "uitofp", a |-> InstValue(base + 1), b |-> NullValue]>>

RECURSIVE Emitted(_, _)
Emitted(node, base) ==
    IF node.type = "num" THEN [val |-> ConstantFP(node.Val), ins |-> <<>>]
    ELSE LET l == Emitted(node.LHS, base)
             r == Emitted(node.RHS, base + Len(l.ins))
             o == Own(node.Op, l.val, r.val, base + Len(l.ins) + Len(r.ins))
         IN [val |-> InstValue(base + Len(l.ins) + Len(r.ins) + Len(o)),
             ins |-> l.ins \o r.ins \o o]

\* C8: the function generated for a unit holds, for every BinaryOp, the
\* builder requests of its left operand, then of its right operand, then its
\* own: one fadd/fsub/fmul/fdiv, or one unordered fcmp followed by one uitofp
\* of the comparison's result; the last one is the value returned.
C8_EmissionOrder ==
    [][pc = "codegen" =>
          LET e == Emitted(FnAST.Body, 0)
          IN /\ Len(printed') = Len(printed) + 1
             /\ Last(printed').body =
                    e.ins \o <<[opc |-> "ret", a |-> e.val, b |-> NullValue]>>]_vars

C8_Witness ==
    /\ printed # <<>>
    /\ UnitText = <<49, 43, 50, 60, 51, 42, 52>>
    /\ Last(printed).body =
          << [opc |-> "fadd", a |-> ConstantFP(<<1, 0>>), b |-> ConstantFP(<<2, 0>>)],
             [opc |-> "fmul", a |-> ConstantFP(<<3, 0>>), b |-> ConstantFP(<<4, 0>>)],
             [opc |-> "fcmp ult", a |-> InstValue(1), b |-> InstValue(2)],
             [opc |-> "uitofp", a |-> InstValue(3), b |-> NullValue],
             [opc |-> "ret", a |-> InstValue(4), b |-> NullValue] >>

\* Characters read so far that lie after the current unit's last token.
ReadBeyondUnit == {k \in (Last(log).from)..nread : k >= 1 /\ k <= Len(input)}

RECURSIVE OpsOf(_)
OpsOf(node) == IF node.type = "num" THEN {} ELSE {node.Op} \cup OpsOf(node.LHS) \cup OpsOf(node.RHS)

\* C10: code generation never fails for a parsed AST: its operators are among
\* + - * / < > =, "invalid binary operator" is never reported, and every
\* parsed unit yields exactly one printed function with no token skipped.
C10_CodegenNeverFails ==
    /\ [](lastErr # "invalid binary operator")
    /\ [](pc = "codegen" => OpsOf(FnAST.Body) \subseteq OpChars)
    /\ [][pc = "codegen" => (/\ Len(printed') = Len(printed) + 1
                             /\ TheModule' = <<>>
                             /\ log' = log /\ CurTok' = CurTok)]_vars

C10_Witness ==
    /\ pc = "loop"
    /\ input = <<49, 43, 49, 33>>
    /\ Len(printed) = 1
    /\ CurTok = 33

====
